---- MODULE Spec2Model ----
(***************************************************************************)
(* Model of validate_project_structure.py: a checklist runner that tests   *)
(* twelve target paths for existence and textual content, prints one line  *)
(* per check and folds the results into all_checks_passed.                 *)
(*                                                                         *)
(* Text is modelled as a sequence of tokens (a token stands for a run of   *)
(* characters that the checks never split).  A printed line is the token   *)
(* sequence the f-string produces.  Icons are written as ASCII tokens.     *)
(***************************************************************************)
EXTENDS Integers, Sequences, FiniteSets, TLC

VARIABLES fs, pc, idx, all_checks_passed, out, reads, exit_status, run, prev

\* fs                 the state of each target path (absent, unreadable, text)
\* pc                 the statement of main() / of the entry point to run next
\* idx                the position of the running loop in core_files / interfaces
\* all_checks_passed  main()'s accumulator
\* out                the lines printed so far on standard output by this run
\* reads              the paths this run has called open() on, in order
\* exit_status        the process's exit status, -1 while it is running
\* run                the number of the current invocation of the script
\* prev               the output and exit status of the invocation before it
vars == <<fs, pc, idx, all_checks_passed, out, reads, exit_status, run, prev>>

-----------------------------------------------------------------------------
(* Bounds of the model *)

\* at most this many target paths differ from a well-formed project tree
MaxDeviations == 2
\* the script is invoked at most this many times on the same tree
MaxRuns == 2
\* a generated project descriptor is made of at most this many fragments
MaxFragments == 5

-----------------------------------------------------------------------------
(* Text helpers *)

RECURSIVE Flatten(_)
Flatten(ss) == IF ss = <<>> THEN <<>> ELSE Head(ss) \o Flatten(Tail(ss))

\* Python's `sub in s` on text: sub occurs as a contiguous run of s
Contains(sub, s) ==
    \E i \in 1..(Len(s) - Len(sub) + 1) : SubSeq(s, i, i + Len(sub) - 1) = sub

\* Python's sep.join(items), each item a text
RECURSIVE Join(_, _)
Join(sep, items) ==
    IF items = <<>> THEN <<>>
    ELSE IF Len(items) = 1 THEN Head(items)
    ELSE Head(items) \o <<sep>> \o Join(sep, Tail(items))

\* characters matched by \s
Whitespace == {" ", "\n", "\t"}

\* s[i..j] is a non-empty run of whitespace (the regex \s+)
WsRun(s, i, j) == i <= j /\ \A k \in i..j : s[k] \in Whitespace

\* re.search(rf'public\s+interface\s+{interface_name}', content)
ReSearchInterface(interface_name, content) ==
    \E a \in 1..Len(content) : \E b \in (a + 2)..Len(content) :
      \E c \in (b + 2)..Len(content) :
        /\ content[a] = "public"
        /\ WsRun(content, a + 1, b - 1)
        /\ content[b] = "interface"
        /\ WsRun(content, b + 1, c - 1)
        /\ content[c] = interface_name

-----------------------------------------------------------------------------
(* The fixed checklist *)

base_path == "AiderVSExtension"

CsprojFile    == <<base_path, "/AiderVSExtension.csproj">>
package_file  == <<base_path, "/AiderVSExtensionPackage.cs">>
ManifestFile  == <<base_path, "/source.extension.vsixmanifest">>
AssemblyInfoFile == <<base_path, "/Properties/AssemblyInfo.cs">>
ServiceContainerFile == <<base_path, "/Services/ServiceContainer.cs">>

core_files ==
    << [path |-> CsprojFile,    description |-> "Project file"],
       [path |-> package_file,   description |-> "Main package class"],
       [path |-> ManifestFile,  description |-> "VSIX manifest"],
       [path |-> AssemblyInfoFile,  description |-> "Assembly info"],
       [path |-> ServiceContainerFile, description |-> "Service container"] >>

interfaces ==
    << "IAiderService", "IConfigurationService", "IFileContextService",
       "IAIModelManager", "ICompletionProvider", "IErrorHandler",
       "IMessageRenderer" >>

\* f"{base_path}/Interfaces/{interface_name}.cs"
InterfacePath(interface_name) ==
    <<base_path, "/Interfaces/", interface_name, ".cs">>

required_packages ==
    << <<"Microsoft.", "VisualStudio.", "SDK">>,
       <<"Microsoft.", "VSSDK.", "BuildTools">>,
       <<"Microsoft.", "VisualStudio.", "Shell.", "Framework">>,
       <<"LibGit2Sharp">>,
       <<"Newtonsoft.", "Json">> >>

required_elements ==
    << <<"DisplayName">>, <<"Description">>, <<"Identity">>,
       <<"Installation">>, <<"Assets">> >>

ServiceContainerMarker == <<"ServiceContainer">>
InitializeAsyncMarker  == <<"InitializeAsync">>

Range(s) == {s[i] : i \in 1..Len(s)}

Paths == {core_files[i].path : i \in 1..Len(core_files)}
           \cup {InterfacePath(interfaces[i]) : i \in 1..Len(interfaces)}

-----------------------------------------------------------------------------
(* Printed lines *)

Pass == "[check]"
Fail == "[cross]"

TitleLine  == <<"[magnifier]", " Validating Visual Studio Extension Project Structure">>
RuleLine   == <<"=*60">>
CoreHeaderLine        == <<"\n", "[folder]", " Core Project Files:">>
InterfaceHeaderLine   == <<"\n", "[plug]", " Interface Definitions:">>
ConfigHeaderLine      == <<"\n", "[gear]", " Project Configuration:">>
IntegrationHeaderLine == <<"\n", "[crane]", " Service Container Integration:">>
FinalRuleLine == <<"\n", "=*60">>

PassedBanner ==
    << <<"[party]", " All validation checks PASSED!">>,
       <<Pass, " Task 1 requirements have been successfully implemented:">>,
       <<"   * VSIX project with proper manifest and package configuration">>,
       <<"   * Core interfaces defined for services and components">>,
       <<"   * Dependency injection container set up for service management">> >>

FailedBanner ==
    << <<Fail, " Some validation checks FAILED!">>,
       <<"Please review the issues above and fix them.">> >>

-----------------------------------------------------------------------------
(* The filesystem: every target path is absent, a text file with a        *)
(* content, or something that exists but that open()/read() raises on: a  *)
(* directory, a file without read permission, a file that is not text.    *)
(* The last kind is written "dir".                                         *)

Absent  == [kind |-> "absent", content |-> <<>>]
Dir     == [kind |-> "dir",    content |-> <<>>]
File(c) == [kind |-> "file",   content |-> c]

os_path_exists(f, p) == f[p].kind # "absent"

\* a variant that opens the file for writing, which truncates it
OpenTruncate(f, p) ==
    [raised |-> f[p].kind # "file", content |-> <<>>,
     fs |-> IF f[p].kind = "file" THEN [f EXCEPT ![p] = File(<<>>)] ELSE f]

\* with open(p, 'r') as f: content = f.read()
OpenRead(f, p) ==
    [raised |-> f[p].kind # "file", content |-> f[p].content, fs |-> f]

-----------------------------------------------------------------------------
(* The check functions.  Each yields what the call does: its return value, *)
(* whether it raised, the lines it printed, the paths it opened, and the   *)
(* filesystem it leaves behind.                                            *)

Result(ret, raised, lines, opened, f) ==
    [ret |-> ret, raised |-> raised, out |-> lines, reads |-> opened, fs |-> f]

\* a variant that creates the path when it is missing
check_file_exists_touch(f, file_path, description) ==
    IF os_path_exists(f, file_path)
    THEN Result(TRUE, FALSE, <<<<Pass, " ", description, ": ">> \o file_path>>,
                <<>>, f)
    ELSE Result(FALSE, FALSE,
                <<<<Fail, " ", description, ": ">> \o file_path \o <<" - NOT FOUND">>>>,
                <<>>, [f EXCEPT ![file_path] = File(<<>>)])

check_file_exists(f, file_path, description) ==
    IF os_path_exists(f, file_path)
    THEN Result(TRUE, FALSE, <<<<Pass, " ", description, ": ">> \o file_path>>,
                <<>>, f)
    ELSE Result(FALSE, FALSE,
                <<<<Fail, " ", description, ": ">> \o file_path \o <<" - NOT FOUND">>>>,
                <<>>, f)

check_interface_definition(f, file_path, interface_name) ==
    IF ~os_path_exists(f, file_path)
    THEN Result(FALSE, FALSE,
                <<<<Fail, " Interface ", interface_name, ": File ">> \o file_path
                    \o <<" not found">>>>,
                <<>>, f)
    ELSE LET o == OpenRead(f, file_path) IN
         IF o.raised THEN Result(FALSE, TRUE, <<>>, <<file_path>>, o.fs)
         ELSE IF ReSearchInterface(interface_name, o.content)
         THEN Result(TRUE, FALSE,
                     <<<<Pass, " Interface ", interface_name, ": Properly defined">>>>,
                     <<file_path>>, o.fs)
         ELSE Result(FALSE, FALSE,
                     <<<<Fail, " Interface ", interface_name, ": Not properly defined">>>>,
                     <<file_path>>, o.fs)

\* a variant of the loop that prepends instead of appending
RECURSIVE missing_packages_prepend(_, _)
missing_packages_prepend(packages, content) ==
    IF packages = <<>> THEN <<>>
    ELSE missing_packages_prepend(Tail(packages), content)
           \o (IF ~Contains(Head(packages), content) THEN <<Head(packages)>> ELSE <<>>)

\* for package in required_packages: if package not in content: append
RECURSIVE missing_packages(_, _)
missing_packages(packages, content) ==
    IF packages = <<>> THEN <<>>
    ELSE (IF ~Contains(Head(packages), content) THEN <<Head(packages)>> ELSE <<>>)
           \o missing_packages(Tail(packages), content)

\* a variant that opens the file without testing that it exists
check_csproj_references_noguard(f, csproj_path) ==
    LET o == OpenRead(f, csproj_path) IN
    IF o.raised THEN Result(FALSE, TRUE, <<>>, <<csproj_path>>, o.fs)
    ELSE LET missing == missing_packages(required_packages, o.content) IN
         IF missing = <<>>
         THEN Result(TRUE, FALSE,
                     <<<<Pass, " All required NuGet packages are referenced">>>>,
                     <<csproj_path>>, o.fs)
         ELSE Result(FALSE, FALSE,
                     <<<<Fail, " Missing NuGet packages: ">> \o Join(", ", missing)>>,
                     <<csproj_path>>, o.fs)

check_csproj_references(f, csproj_path) ==
    IF ~os_path_exists(f, csproj_path)
    THEN Result(FALSE, FALSE,
                <<<<Fail, " Project file not found: ">> \o csproj_path>>, <<>>, f)
    ELSE LET o == OpenRead(f, csproj_path) IN
         IF o.raised THEN Result(FALSE, TRUE, <<>>, <<csproj_path>>, o.fs)
         ELSE LET missing == missing_packages(required_packages, o.content) IN
              IF missing = <<>>
              THEN Result(TRUE, FALSE,
                          <<<<Pass, " All required NuGet packages are referenced">>>>,
                          <<csproj_path>>, o.fs)
              ELSE Result(FALSE, FALSE,
                          <<<<Fail, " Missing NuGet packages: ">> \o Join(", ", missing)>>,
                          <<csproj_path>>, o.fs)

\* for element in required_elements: if f'<{element}' not in content: append
RECURSIVE missing_elements(_, _)
missing_elements(elements, content) ==
    IF elements = <<>> THEN <<>>
    ELSE (IF ~Contains(<<"<">> \o Head(elements), content)
          THEN <<Head(elements)>> ELSE <<>>)
           \o missing_elements(Tail(elements), content)

check_vsix_manifest(f, manifest_path) ==
    IF ~os_path_exists(f, manifest_path)
    THEN Result(FALSE, FALSE,
                <<<<Fail, " VSIX manifest not found: ">> \o manifest_path>>, <<>>, f)
    ELSE LET o == OpenRead(f, manifest_path) IN
         IF o.raised THEN Result(FALSE, TRUE, <<>>, <<manifest_path>>, o.fs)
         ELSE LET missing == missing_elements(required_elements, o.content) IN
              IF missing = <<>>
              THEN Result(TRUE, FALSE,
                          <<<<Pass, " VSIX manifest is properly configured">>>>,
                          <<manifest_path>>, o.fs)
              ELSE Result(FALSE, FALSE,
                          <<<<Fail, " VSIX manifest missing elements: ">>
                              \o Join(", ", missing)>>,
                          <<manifest_path>>, o.fs)

-----------------------------------------------------------------------------
(* Filesystem states the runs start from: a well-formed project tree in    *)
(* which at most MaxDeviations target paths are replaced by a variant.     *)

GoodInterface(interface_name) ==
    IF interface_name \in {"IAiderService", "IErrorHandler"}
    THEN <<"// ", "public", "\n", "\t", "interface", " ", interface_name, "<T>">>
    ELSE <<"public", " ", "interface", " ", interface_name>>

BadInterface(interface_name) ==
    IF interface_name \in {"IAiderService", "IAIModelManager"}
    THEN <<"internal", " ", "interface", " ", interface_name>>
    ELSE IF interface_name \in {"IConfigurationService", "IMessageRenderer"}
    THEN <<"public", "interface", " ", interface_name>>
    ELSE <<"public", " ", "interface", " ", "I", interface_name>>

GoodCsproj == Join("\n", required_packages)

GoodManifest ==
    <<"<", "PackageManifest", ">", "<", "DisplayName", ">", "<", "Description",
      ">", "<", "Identity", "/>", "<", "Installation", ">", "<", "Assets", ">">>

GoodPackage ==
    <<"class ", "AiderVSExtensionPackage", " ", "ServiceContainer", " ",
      "InitializeAsync">>

Good(p) ==
    IF p = CsprojFile THEN File(GoodCsproj)
    ELSE IF p = package_file THEN File(GoodPackage)
    ELSE IF p = ManifestFile THEN File(GoodManifest)
    ELSE IF p = AssemblyInfoFile THEN File(<<"[assembly: ", "AssemblyTitle", "]">>)
    ELSE IF p = ServiceContainerFile THEN File(<<"class ", "ServiceContainer">>)
    ELSE File(GoodInterface(p[3]))

Variants(p) ==
    {Absent, Dir} \cup
    IF p = CsprojFile
    THEN {File(<<"Newtonsoft.", "Json", "libgit2sharp", "Microsoft.", "VSSDK.",
                 "BuildTools", "Microsoft.", "VisualStudio.", "Shell.",
                 "Framework", "Microsoft.", "VisualStudio.", "SDK">>),
          File(<<"Microsoft.", "VisualStudio.", "Microsoft.", "VSSDK.",
                 "BuildTools", "LibGit2Sharp", "Newtonsoft.", "json">>)}
    ELSE IF p = package_file
    THEN {File(<<"ServiceContainer">>), File(<<"InitializeAsync">>),
          File(<<"class ", "AiderVSExtensionPackage">>)}
    ELSE IF p = ManifestFile
    THEN {File(<<"<", "DisplayName", ">", "<", "Description", ">", "<",
                 "Installation", ">", "</", "Assets", ">">>)}
    ELSE IF p \in {AssemblyInfoFile, ServiceContainerFile} THEN {}
    ELSE {File(BadInterface(p[3]))}

AllVariants == UNION {Variants(p) : p \in Paths}

Filesystems ==
    UNION { { [p \in Paths |-> IF p \in D THEN v[p] ELSE Good(p)] :
                v \in {w \in [D -> AllVariants] : \A p \in D : w[p] \in Variants(p)} } :
            D \in {E \in SUBSET Paths : Cardinality(E) <= MaxDeviations} }

-----------------------------------------------------------------------------
(* main() and the script's entry point *)

\* a variant that assigns the result instead of only clearing the flag
FoldAssign(flag, ok) == ok

\* if not check(...): all_checks_passed = False
Fold(flag, ok) == IF ~ok THEN FALSE ELSE flag

\* the effect of one check call inside main(), which goes on at `next`
Call(r, next) ==
    /\ out' = out \o r.out
    /\ reads' = reads \o r.reads
    /\ fs' = r.fs
    /\ IF r.raised
       THEN pc' = "raised" /\ UNCHANGED all_checks_passed
       ELSE pc' = next /\ all_checks_passed' = Fold(all_checks_passed, r.ret)

Banner ==
    /\ pc = "banner"
    /\ out' = out \o <<TitleLine, RuleLine>>
    /\ all_checks_passed' = TRUE
    /\ pc' = "core_header"
    /\ UNCHANGED <<fs, idx, reads, exit_status, run, prev>>

CoreHeader ==
    /\ pc = "core_header"
    /\ out' = Append(out, CoreHeaderLine)
    /\ idx' = 1
    /\ pc' = "core"
    /\ UNCHANGED <<fs, all_checks_passed, reads, exit_status, run, prev>>

CoreFileCheck ==
    /\ pc = "core"
    /\ Call(check_file_exists(fs, core_files[idx].path, core_files[idx].description),
            IF idx < Len(core_files) THEN "core" ELSE "iface_header")
    /\ idx' = idx + 1
    /\ UNCHANGED <<exit_status, run, prev>>

InterfaceHeader ==
    /\ pc = "iface_header"
    /\ out' = Append(out, InterfaceHeaderLine)
    /\ idx' = 1
    /\ pc' = "iface"
    /\ UNCHANGED <<fs, all_checks_passed, reads, exit_status, run, prev>>

InterfaceCheck ==
    /\ pc = "iface"
    /\ Call(check_interface_definition(fs, InterfacePath(interfaces[idx]),
                                       interfaces[idx]),
            IF idx < Len(interfaces) THEN "iface" ELSE "config_header")
    /\ idx' = idx + 1
    /\ UNCHANGED <<exit_status, run, prev>>

\* a variant that prints no header for the group
ConfigHeaderSilent ==
    /\ pc = "config_header"
    /\ pc' = "csproj"
    /\ UNCHANGED <<fs, idx, out, all_checks_passed, reads, exit_status, run, prev>>

ConfigHeader ==
    /\ pc = "config_header"
    /\ out' = Append(out, ConfigHeaderLine)
    /\ pc' = "csproj"
    /\ UNCHANGED <<fs, idx, all_checks_passed, reads, exit_status, run, prev>>

CsprojCheck ==
    /\ pc = "csproj"
    /\ Call(check_csproj_references(fs, CsprojFile), "manifest")
    /\ UNCHANGED <<idx, exit_status, run, prev>>

ManifestCheck ==
    /\ pc = "manifest"
    /\ Call(check_vsix_manifest(fs, ManifestFile), "integ_header")
    /\ UNCHANGED <<idx, exit_status, run, prev>>

IntegrationHeader ==
    /\ pc = "integ_header"
    /\ out' = Append(out, IntegrationHeaderLine)
    /\ pc' = "integ"
    /\ UNCHANGED <<fs, idx, all_checks_passed, reads, exit_status, run, prev>>

IntegratedLine   == <<Pass, " Service container is properly integrated in main package">>
IncompleteLine   == <<Fail, " Service container integration incomplete">>

\* a variant whose else branch prints the failure but leaves the flag alone
IntegrationCheckNoClear ==
    /\ pc = "integ"
    /\ IF os_path_exists(fs, package_file)
       THEN LET o == OpenRead(fs, package_file) IN
            /\ reads' = Append(reads, package_file)
            /\ fs' = o.fs
            /\ IF o.raised
               THEN pc' = "raised" /\ UNCHANGED <<out, all_checks_passed>>
               ELSE /\ pc' = "final"
                    /\ UNCHANGED all_checks_passed
                    /\ IF /\ Contains(ServiceContainerMarker, o.content)
                          /\ Contains(InitializeAsyncMarker, o.content)
                       THEN out' = Append(out, IntegratedLine)
                       ELSE out' = Append(out, IncompleteLine)
       ELSE pc' = "final" /\ UNCHANGED <<fs, out, reads, all_checks_passed>>
    /\ UNCHANGED <<idx, exit_status, run, prev>>

IntegrationCheck ==
    /\ pc = "integ"
    /\ IF os_path_exists(fs, package_file)
       THEN LET o == OpenRead(fs, package_file) IN
            /\ reads' = Append(reads, package_file)
            /\ fs' = o.fs
            /\ IF o.raised
               THEN pc' = "raised" /\ UNCHANGED <<out, all_checks_passed>>
               ELSE /\ pc' = "final"
                    /\ IF /\ Contains(ServiceContainerMarker, o.content)
                          /\ Contains(InitializeAsyncMarker, o.content)
                       THEN /\ out' = Append(out, IntegratedLine)
                            /\ UNCHANGED all_checks_passed
                       ELSE /\ out' = Append(out, IncompleteLine)
                            /\ all_checks_passed' = FALSE
       ELSE pc' = "final" /\ UNCHANGED <<fs, out, reads, all_checks_passed>>
    /\ UNCHANGED <<idx, exit_status, run, prev>>

FinalResult ==
    /\ pc = "final"
    /\ out' = out \o <<FinalRuleLine>>
                  \o (IF all_checks_passed THEN PassedBanner ELSE FailedBanner)
    /\ pc' = "returned"
    /\ UNCHANGED <<fs, idx, all_checks_passed, reads, exit_status, run, prev>>

\* success = main(); exit(0 if success else 1)
Exit ==
    /\ pc = "returned"
    /\ exit_status' = (IF all_checks_passed THEN 0 ELSE 1)
    /\ pc' = "exited"
    /\ UNCHANGED <<fs, idx, all_checks_passed, out, reads, run, prev>>

\* an exception leaves main(): the interpreter writes the traceback to the
\* error stream and ends the process with status 1
UncaughtException ==
    /\ pc = "raised"
    /\ exit_status' = 1
    /\ pc' = "exited"
    /\ UNCHANGED <<fs, idx, all_checks_passed, out, reads, run, prev>>

\* the script is invoked again on the tree the previous run left
Rerun ==
    /\ pc = "exited"
    /\ run < MaxRuns
    /\ prev' = [out |-> out, exit_status |-> exit_status]
    /\ run' = run + 1
    /\ out' = <<>>
    /\ reads' = <<>>
    /\ exit_status' = -1
    /\ all_checks_passed' = TRUE
    /\ idx' = 1
    /\ pc' = "banner"
    /\ UNCHANGED fs

Init ==
    /\ fs \in Filesystems
    /\ pc = "banner"
    /\ idx = 1
    /\ all_checks_passed = TRUE
    /\ out = <<>>
    /\ reads = <<>>
    /\ exit_status = -1
    /\ run = 1
    /\ prev = [out |-> <<>>, exit_status |-> -1]

Next ==
    \/ Banner
    \/ CoreHeader
    \/ CoreFileCheck
    \/ InterfaceHeader
    \/ InterfaceCheck
    \/ ConfigHeader
    \/ CsprojCheck
    \/ ManifestCheck
    \/ IntegrationHeader
    \/ IntegrationCheck
    \/ FinalResult
    \/ Exit
    \/ UncaughtException
    \/ Rerun

Spec == Init /\ [][Next]_vars

-----------------------------------------------------------------------------
(* check_csproj_references on its own: the project descriptor holds any    *)
(* sequence of at most MaxFragments fragments, and the function is called  *)
(* once on it.                                                             *)

Fragments ==
    Range(required_packages)
      \cup { <<"libgit2sharp">>, <<"Microsoft.", "VisualStudio.">> }

Descriptors ==
    { Flatten(q) : q \in UNION { [1..n -> Fragments] : n \in 0..MaxFragments } }

InitRef ==
    /\ \E c \in Descriptors :
         fs = [p \in Paths |-> IF p = CsprojFile THEN File(c) ELSE Good(p)]
    /\ pc = "csproj"
    /\ idx = 1
    /\ all_checks_passed = TRUE
    /\ out = <<>>
    /\ reads = <<>>
    /\ exit_status = -1
    /\ run = 1
    /\ prev = [out |-> <<>>, exit_status |-> -1]

NextRef == CsprojCheck

SpecRef == InitRef /\ [][NextRef]_vars

-----------------------------------------------------------------------------
(* What each check of the checklist is, as a predicate of the filesystem   *)

CoreOK(i) == fs[core_files[i].path].kind # "absent"

InterfaceOK(i) ==
    LET f == fs[InterfacePath(interfaces[i])] IN
    f.kind = "file" /\ ReSearchInterface(interfaces[i], f.content)

ReferenceOK ==
    /\ fs[CsprojFile].kind = "file"
    /\ \A i \in 1..Len(required_packages) :
         Contains(required_packages[i], fs[CsprojFile].content)

ManifestOK ==
    /\ fs[ManifestFile].kind = "file"
    /\ \A i \in 1..Len(required_elements) :
         Contains(<<"<">> \o required_elements[i], fs[ManifestFile].content)

MarkerOK ==
    /\ fs[package_file].kind = "file"
    /\ Contains(ServiceContainerMarker, fs[package_file].content)
    /\ Contains(InitializeAsyncMarker, fs[package_file].content)

EveryCheckTrue ==
    /\ \A i \in 1..Len(core_files) : CoreOK(i)
    /\ \A i \in 1..Len(interfaces) : InterfaceOK(i)
    /\ ReferenceOK
    /\ ManifestOK
    /\ MarkerOK

\* the lines printed before the final rule
Body(o) ==
    IF \E i \in 1..Len(o) : o[i] = FinalRuleLine
    THEN SubSeq(o, 1, (CHOOSE i \in 1..Len(o) : o[i] = FinalRuleLine) - 1)
    ELSE o

IsOutcome(line) == line[1] \in {Pass, Fail}

OutcomeCount(o) == Cardinality({i \in 1..Len(Body(o)) : IsOutcome(Body(o)[i])})

Headers ==
    {CoreHeaderLine, InterfaceHeaderLine, ConfigHeaderLine, IntegrationHeaderLine}

\* the group an outcome line belongs to, read off its fixed text
GroupOf(line) ==
    IF line[2] = " " THEN "core"
    ELSE IF line[2] = " Interface " THEN "interface"
    ELSE IF line[2] \in {" Project file not found: ", " Missing NuGet packages: ",
                         " All required NuGet packages are referenced"}
    THEN "reference"
    ELSE IF line[2] \in {" VSIX manifest not found: ", " VSIX manifest missing elements: ",
                         " VSIX manifest is properly configured"}
    THEN "manifest"
    ELSE "integration"

\* the place of a line in the report: a header, or the check it reports
Slot(line) ==
    IF line \in Headers \cup {TitleLine, RuleLine} THEN line[Len(line)]
    ELSE IF GroupOf(line) \in {"core", "interface"} THEN line[3]
    ELSE GroupOf(line)

Slots(o) == [i \in 1..Len(o) |-> Slot(o[i])]

ReportOrder ==
    <<TitleLine[2], RuleLine[1], CoreHeaderLine[3]>>
      \o [i \in 1..Len(core_files) |-> core_files[i].description]
      \o <<InterfaceHeaderLine[3]>>
      \o interfaces
      \o <<ConfigHeaderLine[3], "reference", "manifest", IntegrationHeaderLine[3],
           "integration">>

IsPrefix(s, t) == Len(s) <= Len(t) /\ SubSeq(t, 1, Len(s)) = s

HasNotFound(line) ==
    \E i \in 1..Len(line) :
      line[i] \in {" - NOT FOUND", " not found", " Project file not found: ",
                   " VSIX manifest not found: "}

\* the path the check function about to be called is given
Target ==
    CASE pc = "core" -> core_files[idx].path
      [] pc = "iface" -> InterfacePath(interfaces[idx])
      [] pc = "csproj" -> CsprojFile
      [] pc = "manifest" -> ManifestFile
      [] OTHER -> package_file

-----------------------------------------------------------------------------
(* The claims *)

\* C1: when main() returns, the aggregate flag is true iff every one of the
\* 5 existence checks, 7 interface checks, the reference check, the manifest
\* check and the integration marker check is true; the exit status is 0 iff
\* they all are.
C1_AggregateIsAndFold ==
    /\ pc = "returned" => (all_checks_passed <=> EveryCheckTrue)
    /\ pc = "exited" => (exit_status = 0 <=> EveryCheckTrue)

\* C1 witness: the marker check is the single failing check and the run
\* ended with status 1
C1_Witness ==
    /\ pc = "exited" /\ exit_status = 1 /\ Body(out) # out
    /\ ~MarkerOK /\ ReferenceOK /\ ManifestOK
    /\ \A i \in 1..Len(core_files) : CoreOK(i)
    /\ \A i \in 1..Len(interfaces) : InterfaceOK(i)

\* C2 (as claimed): whenever main() has reached its final banner, each of
\* the 15 checks has printed its own pass or fail line before it.
C2_EveryCheckReports ==
    pc = "returned" => OutcomeCount(out) = Len(core_files) + Len(interfaces) + 3

\* C3 (as claimed): no exception escapes a check; main() never raises.
C3_NoExceptionEscapes == pc # "raised"

\* C4: when the path given to check_file_exists, check_interface_definition,
\* check_csproj_references or check_vsix_manifest does not exist, the call
\* prints exactly one failure line with a "not found" detail, opens no file,
\* raises nothing and returns false.
C4_MissingTargetReportsNotFound ==
    [][ (pc \in {"core", "iface", "csproj", "manifest"} /\ ~os_path_exists(fs, Target))
          => /\ Len(out') = Len(out) + 1
             /\ SubSeq(out', 1, Len(out)) = out
             /\ out'[Len(out')][1] = Fail
             /\ HasNotFound(out'[Len(out')])
             /\ reads' = reads
             /\ pc' # "raised"
             /\ all_checks_passed' = FALSE ]_vars

\* C4 witness: check_csproj_references has just reported the missing
\* project file, after the interface checks opened their files
C4_Witness ==
    /\ pc = "manifest"
    /\ out[Len(out)] = <<Fail, " Project file not found: ">> \o CsprojFile
    /\ ~os_path_exists(fs, CsprojFile)
    /\ CsprojFile \notin Range(reads)
    /\ ~all_checks_passed

\* C5 (as claimed): once the integration step is over, the success line is
\* printed iff both markers are in the file's text, and in every other case
\* (one marker, none, no text) the failure line is printed and the flag is
\* false.
C5_MarkerReportedEitherWay ==
    pc \in {"final", "returned"}
      => IF MarkerOK
         THEN IntegratedLine \in Range(out)
         ELSE IncompleteLine \in Range(out) /\ ~all_checks_passed

\* C6: for an existing descriptor with any content, check_csproj_references
\* returns true iff each of the five names is a substring of the content,
\* and otherwise its message lists exactly the absent names in list order.
C6_ReferenceCheck ==
    (pc = "manifest" /\ fs[CsprojFile].kind = "file")
      => LET content == fs[CsprojFile].content
             absent == SelectSeq(required_packages, LAMBDA n : ~Contains(n, content))
         IN /\ all_checks_passed <=> ReferenceOK
            /\ Len(out) = 1
            /\ ReferenceOK =>
                 out[1] = <<Pass, " All required NuGet packages are referenced">>
            /\ ~ReferenceOK =>
                 out[1] = <<Fail, " Missing NuGet packages: ">> \o Join(", ", absent)

\* C6 witness: the first and the fourth name are absent, the others present
\* in an order that is not the list's, and the message names exactly those two
C6_Witness ==
    /\ pc = "manifest"
    /\ out = << <<Fail, " Missing NuGet packages: ">>
                  \o required_packages[1] \o <<", ">> \o required_packages[4] >>
    /\ Contains(required_packages[5] \o required_packages[2], fs[CsprojFile].content)
    /\ Contains(<<"libgit2sharp">>, fs[CsprojFile].content)
    /\ ~all_checks_passed

\* C7 (as claimed): each of the five groups (core files, interface files,
\* reference check, manifest, integration marker) has a section header
\* printed right before its first outcome line.
C7_HeaderBeforeEachOfFiveGroups ==
    \A i \in 1..Len(Body(out)) :
      (/\ IsOutcome(out[i])
       /\ \A j \in 1..(i - 1) : ~(IsOutcome(out[j]) /\ GroupOf(out[j]) = GroupOf(out[i])))
        => (i > 1 /\ out[i - 1] \in Headers)

\* C7 (amended): the lines printed before the final rule always follow the
\* one fixed order: title, rule, core header, the 5 core outcomes, interface
\* header, the 7 interface outcomes, configuration header, reference outcome,
\* manifest outcome (no header of its own), integration header, integration
\* outcome; a run that returns printed all of it, at most the integration
\* outcome missing.
C7_FixedOrderFourHeaders ==
    /\ IsPrefix(Slots(Body(out)), ReportOrder)
    /\ pc = "returned" => Len(Body(out)) >= Len(ReportOrder) - 1

\* C7 witness: a run with a failed interface check and a failed reference
\* check returned, and printed the whole report in order
C7_Witness ==
    /\ pc = "returned"
    /\ Slots(Body(out)) = ReportOrder
    /\ ~ReferenceOK
    /\ \E i \in 1..Len(interfaces) : ~InterfaceOK(i)

\* C8: a second run on the unchanged tree prints the same lines and ends
\* with the same exit status as the run before it.
C8_SecondRunIdentical ==
    (run >= 2 /\ pc = "exited")
      => (out = prev.out /\ exit_status = prev.exit_status)

\* C8 witness: a second run ended, with failures reported in both
C8_Witness ==
    /\ run = 2 /\ pc = "exited" /\ exit_status = 1
    /\ Len(out) > Len(ReportOrder)
    /\ ~CoreOK(1)

\* C9: no step of a run changes the existence or content of any path.
C9_FilesystemUnchanged == [][fs' = fs]_vars

\* C9 witness: a run ended after opening all ten files the checks read
C9_Witness ==
    /\ pc = "exited"
    /\ Len(reads) = Len(interfaces) + 3

\* C10: within a run, all_checks_passed starts true, never goes back from
\* false to true, and when it is false at the final step the corrective
\* banner is what gets printed.
C10_Latch ==
    [][ /\ pc = "banner" => all_checks_passed'
        /\ (~all_checks_passed /\ run' = run) => ~all_checks_passed'
        /\ (pc = "final" /\ ~all_checks_passed)
             => out' = out \o <<FinalRuleLine>> \o FailedBanner ]_vars

\* C10 witness: a check passed after another one had failed, and the run
\* ended with the corrective banner
C10_Witness ==
    /\ pc = "returned"
    /\ ~all_checks_passed
    /\ ~CoreOK(1) /\ InterfaceOK(1) /\ MarkerOK
    /\ FailedBanner[1] \in Range(out)
    /\ PassedBanner[1] \notin Range(out)

====
